---- MODULE Spec2Model ----
(***************************************************************************)
(* State-machine model of the PM10 forecasting pipeline:                   *)
(*   get_data.py      - ingest: fetch one observation, append it to the    *)
(*                      observation log (current_data.csv)                 *)
(*   predict_model.py - read the log tail, derive features, window them,   *)
(*                      call the classifier, compose and post the alert    *)
(*                                                                         *)
(* Numbers are fixed point.  Measurements (wind, temperature, humidity,    *)
(* precipitation, pressure, pm10) are in hundredths of their unit; a       *)
(* probability is in units of 1/100000.  A missing float (pandas NaN, or   *)
(* None in a numeric column) is the value NaN below; every comparison with *)
(* it is false, as for IEEE floats.                                        *)
(***************************************************************************)
EXTENDS Integers, Sequences, FiniteSets, TLC

VARIABLES
    log,        \* current_data.csv: [exists, lines]
    clock,      \* days elapsed since StartDoy (wall clock read by datetime.now())
    run,        \* what the last run (ingest or prediction) did
    seasonIn,   \* argument of a get_season call, <<month, day>>
    seasonOut   \* its result, 0 before the call

vars == <<log, clock, run, seasonIn, seasonOut>>

\* ---------------------------------------------------------------- bounds
MaxRows == 4        \* data rows the log may hold
MaxClock == 1       \* days the clock may advance
MaxDirectRows == 4  \* rows of a frame handed directly to predict_from_last_sequence

\* ------------------------------------------------------- missing values
NaN == 0 - 999999
EmptyCell == 0 - 888888

Lt(a, b) == a # NaN /\ b # NaN /\ a < b
Gt(a, b) == a # NaN /\ b # NaN /\ a > b

\* ---------------------------------------------------------------- dates
DaysInMonth == <<31, 29, 31, 30, 31, 30, 31, 31, 30, 31, 30, 31>>

\* every (month, day) of the calendar, Feb 29 included
CalendarDates == {md \in (1..12) \X (1..31) : md[2] <= DaysInMonth[md[1]]}

get_seasonLateBoundary(month, day) ==
    IF (month = 12 /\ day >= 22) \/ (month \in {1, 2}) \/ (month = 3 /\ day <= 20)
    THEN 4
    ELSE IF (month = 3 /\ day >= 21) \/ (month \in {4, 5}) \/ (month = 6 /\ day <= 20)
    THEN 1
    ELSE IF (month = 6 /\ day >= 21) \/ (month \in {7, 8}) \/ (month = 9 /\ day <= 20)
    THEN 2
    ELSE 3

get_season(month, day) ==
    IF (month = 12 /\ day >= 21) \/ (month \in {1, 2}) \/ (month = 3 /\ day <= 20)
    THEN 4  \* Winter
    ELSE IF (month = 3 /\ day >= 21) \/ (month \in {4, 5}) \/ (month = 6 /\ day <= 20)
    THEN 1  \* Spring
    ELSE IF (month = 6 /\ day >= 21) \/ (month \in {7, 8}) \/ (month = 9 /\ day <= 20)
    THEN 2  \* Summer
    ELSE 3  \* Autumn

\* datetime.weekday(): Monday = 0 ... Sunday = 6 (proleptic Gregorian calendar)
MonthKey == <<0, 3, 2, 5, 0, 3, 5, 1, 4, 6, 2, 4>>

weekday(date) ==
    LET y == IF date[2] < 3 THEN date[1] - 1 ELSE date[1]
        sundayBased == (y + (y \div 4) - (y \div 100) + (y \div 400)
                          + MonthKey[date[2]] + date[3]) % 7
    IN (sundayBased + 6) % 7

IsLeap(y) == (y % 4 = 0 /\ y % 100 # 0) \/ y % 400 = 0

MonthLength(y, m) == IF m = 2 /\ ~IsLeap(y) THEN 28 ELSE DaysInMonth[m]

RECURSIVE DaysBeforeMonth(_, _)
DaysBeforeMonth(y, m) ==
    IF m = 1 THEN 0 ELSE DaysBeforeMonth(y, m - 1) + MonthLength(y, m - 1)

DayOfYear(date) == DaysBeforeMonth(date[1], date[2]) + date[3]

\* Easter Sunday of year y as <<y, month, day>> (Gregorian computus)
Easter(y) ==
    LET a == y % 19
        b == y \div 100
        c == y % 100
        d == b \div 4
        e == b % 4
        f == (b + 8) \div 25
        g == (b - f + 1) \div 3
        h == (19 * a + b - d - g + 15) % 30
        i == c \div 4
        k == c % 4
        l == (32 + 2 * e + 2 * i - h - k) % 7
        m == (a + 11 * h + 22 * l) \div 451
        n == h + l - 7 * m + 114
    IN <<y, n \div 31, (n % 31) + 1>>

\* holidays.Poland: the public holidays of the years the model's dates fall in
FixedHolidays(y) ==
    {<<1, 1>>, <<1, 6>>, <<5, 1>>, <<5, 3>>, <<8, 15>>, <<11, 1>>, <<11, 11>>,
     <<12, 25>>, <<12, 26>>} \cup (IF y >= 2025 THEN {<<12, 24>>} ELSE {})

IsHolidayDate(date) ==
    \/ <<date[2], date[3]>> \in FixedHolidays(date[1])
    \/ DayOfYear(date) - DayOfYear(Easter(date[1])) \in {0, 1, 49, 60}

\* date + one day
NextDay(date) ==
    IF date[3] < MonthLength(date[1], date[2]) THEN <<date[1], date[2], date[3] + 1>>
    ELSE IF date[2] < 12 THEN <<date[1], date[2] + 1, 1>>
    ELSE <<date[1] + 1, 1, 1>>

RECURSIVE AddDays(_, _)
AddDays(date, n) == IF n = 0 THEN date ELSE AddDays(NextDay(date), n - 1)

\* the date the clock shows when the model starts
StartDate == <<2025, 5, 2>>

\* datetime.now().strftime("%Y-%m-%d"), and pd.to_datetime back
Today(c) == AddDays(StartDate, c)

\* ------------------------------------------------- the observation log
\* A line of current_data.csv: the header, or one observation's cells in the
\* header's column order
\*   Data, wind speed, temperature, relative humidity, precipitation, pressure, pm10
HeaderLine == [hdr |-> TRUE, cells |-> <<>>]

\* DataFrame.to_csv writes a missing value (NaN or None) as an empty cell ...
ToCsvCell(v) == IF v = NaN THEN EmptyCell ELSE v
\* ... and pd.read_csv reads an empty cell of a numeric column as NaN
FromCsvCell(c) == IF c = EmptyCell THEN NaN ELSE c

RowLine(obs) ==
    [hdr |-> FALSE,
     cells |-> <<obs.Data, ToCsvCell(obs.wind), ToCsvCell(obs.temperature),
                 ToCsvCell(obs.humidity), ToCsvCell(obs.precipitation),
                 ToCsvCell(obs.pressure), ToCsvCell(obs.pm10)>>]

MissingFile == [exists |-> FALSE, lines |-> <<>>]

\* ------------------------------------------------------------- ingest
\* What the two upstream services can answer: daily means of today's hourly
\* values (NaN when no hourly value falls on today's UTC date; the
\* precipitation sum of no values is 0) and today's mean pm10 (None when the
\* sensor has no reading for today)
Readings ==
    { [wind |-> 100, temperature |-> 500, humidity |-> 8000, precipitation |-> 0,
       pressure |-> 102500, pm10 |-> 6000],
      [wind |-> NaN, temperature |-> NaN, humidity |-> NaN, precipitation |-> 0,
       pressure |-> NaN, pm10 |-> NaN] }

\* how a fetch can end: the weather request fails, the sensor list request
\* fails, the station lists no PM10 sensor, the pm10 request fails, the pm10
\* answer holds no values at all, or everything is answered
FetchOutcomes ==
    {"weather_error", "sensors_error", "no_pm10_sensor", "pm10_error",
     "no_pm10_values", "ok"}

\* [kind |-> "empty"]            an empty DataFrame (every handled failure)
\* [kind |-> "raise"]            an exception leaves the function
\* [kind |-> "row", row |-> obs] the one-row result
get_current_weather_and_pm10(outcome, reading, now) ==
    IF outcome \in {"weather_error", "sensors_error", "no_pm10_sensor", "pm10_error"}
    THEN [kind |-> "empty", row |-> <<>>]
    ELSE IF outcome = "no_pm10_values"
    THEN [kind |-> "raise", row |-> <<>>]   \* pd.DataFrame([])['date']: KeyError
    ELSE [kind |-> "row",
          row |-> [Data |-> Today(now), wind |-> reading.wind,
                   temperature |-> reading.temperature,
                   humidity |-> reading.humidity,
                   precipitation |-> reading.precipitation,
                   pressure |-> reading.pressure, pm10 |-> reading.pm10]]

save_to_csvHeaderEveryTime(file, obs) ==
    [exists |-> TRUE, lines |-> file.lines \o <<HeaderLine, RowLine(obs)>>]

save_to_csv(file, obs) ==
    IF file.exists
    THEN [exists |-> TRUE, lines |-> Append(file.lines, RowLine(obs))]
    ELSE [exists |-> TRUE, lines |-> <<HeaderLine, RowLine(obs)>>]

\* data rows of the file (every line but the first)
DataLines(file) == IF file.lines = <<>> THEN <<>> ELSE Tail(file.lines)

\* --------------------------------------------------- feature building
Max(a, b) == IF a > b THEN a ELSE b

\* DataFrame.tail(3)
Tail3(rows) == SubSeq(rows, Max(1, Len(rows) - 2), Len(rows))

\* one transformed row, in the order of the dict's keys:
\* Month, Tavg, Pavg, Wavg, Huavg, Pravg, PM10, IsWeekend, IsHoliday, Season
FeatureRow(line) ==
    LET date == line.cells[1]
    IN <<date[2],
         FromCsvCell(line.cells[3]),     \* Tavg  <- temperature
         FromCsvCell(line.cells[5]),     \* Pavg  <- precipitation
         FromCsvCell(line.cells[2]),     \* Wavg  <- wind speed
         FromCsvCell(line.cells[4]),     \* Huavg <- relative humidity
         FromCsvCell(line.cells[6]),     \* Pravg <- pressure
         FromCsvCell(line.cells[7]),     \* PM10  <- pm10
         IF weekday(date) >= 5 THEN 1 ELSE 0,
         IF IsHolidayDate(date) THEN 1 ELSE 0,
         get_season(date[2], date[3])>>

\* [kind |-> "df", rows |-> ...]   the returned frame (<<>>: an empty frame)
\* [kind |-> "raise", ...]         an exception leaves the function
get_last_observations_transformed(file) ==
    IF ~file.exists
    THEN [kind |-> "df", note |-> "File does not exist", rows |-> <<>>]
    ELSE IF file.lines = <<>>
    THEN [kind |-> "raise", note |-> "EmptyDataError", rows |-> <<>>]
    ELSE IF Len(file.lines) = 1
    THEN [kind |-> "df", note |-> "File is empty", rows |-> <<>>]
    ELSE IF ~file.lines[1].hdr
    THEN [kind |-> "raise", note |-> "KeyError Data", rows |-> <<>>]
    ELSE LET last_3 == Tail3(DataLines(file))
         IN IF \E i \in 1..Len(last_3) : last_3[i].hdr
            THEN [kind |-> "raise", note |-> "NaT date", rows |-> <<>>]
            ELSE [kind |-> "df", note |-> "transformed",
                  rows |-> [i \in 1..Len(last_3) |-> FeatureRow(last_3[i])]]

\* ----------------------------------------------------------- windowing
original_columns ==
    <<"Month", "Tavg", "Pavg", "Wavg", "Huavg", "Pravg", "PM10", "IsWeekend",
      "IsHoliday", "Season">>

\* the 30 column names: <<name, 1>> is name, <<name, 2>> name_2, <<name, 3>> name_3
all_columns ==
    [i \in 1..10 |-> <<original_columns[i], 1>>]
    \o [i \in 1..10 |-> <<original_columns[i], 2>>]
    \o [i \in 1..10 |-> <<original_columns[i], 3>>]

RECURSIVE Flatten(_)
Flatten(rows) == IF rows = <<>> THEN <<>> ELSE Head(rows) \o Flatten(Tail(rows))

Min(a, b) == IF a < b THEN a ELSE b

\* the list `sequences` of create_sequence, built from row i (1-based) on:
\* df.iloc[i:i + 3] is cut at the end of the frame
RECURSIVE SequencesFrom(_, _)
SequencesFrom(df, i) ==
    IF i > Len(df) THEN <<>>
    ELSE <<Flatten(SubSeq(df, i, Min(i + 2, Len(df))))>> \o SequencesFrom(df, i + 3)

MaxWidth(sequences) ==
    IF sequences = <<>> THEN 0
    ELSE CHOOSE w \in {Len(sequences[k]) : k \in 1..Len(sequences)} :
            \A k \in 1..Len(sequences) : Len(sequences[k]) <= w

\* pd.DataFrame(list of arrays): shorter arrays are filled up with NaN
ToFrame(sequences) ==
    [k \in 1..Len(sequences) |->
        [j \in 1..MaxWidth(sequences) |->
            IF j <= Len(sequences[k]) THEN sequences[k][j] ELSE NaN]]

create_sequence(df) == ToFrame(SequencesFrom(df, 1))

\* seq_df[name].iloc[0]
Cell0(seq_df, name) ==
    seq_df[1][CHOOSE i \in 1..Len(all_columns) : all_columns[i] = name]

\* --------------------------------------------------- alert composition
HighThreshold == 70000      \* risk_probability > 0.7
ModerateThreshold == 40000  \* risk_probability > 0.4
LowWind == 200              \* wind < 2.0
HighWind == 400             \* wind > 4.0
HighPressure == 102000      \* pressure > 1020

\* x / unit rounded to the nearest integer, ties to even; NaN stays NaN ("nan")
RoundHalfEven(x, unit) ==
    IF x = NaN THEN NaN
    ELSE LET q == x \div unit
             r == x % unit
         IN IF 2 * r < unit THEN q
            ELSE IF 2 * r > unit THEN q + 1
            ELSE IF q % 2 = 0 THEN q ELSE q + 1

\* round(risk_probability * 100, 1), in tenths of a percent
ConfidencePct(p) == RoundHalfEven(p, 100)
\* f"{x:.1f}", in tenths
Fmt1(x) == RoundHalfEven(x, 10)
\* f"{x:.0f}", in units
Fmt0(x) == RoundHalfEven(x, 100)

\* one line of the message: what it says and the numbers printed in it
Line(tag, a, b, c) == [tag |-> tag, a |-> a, b |-> b, c |-> c]

TierInclusive(p) ==
    IF Gt(p, HighThreshold) \/ p = HighThreshold THEN "HIGH"
    ELSE IF Gt(p, ModerateThreshold) \/ p = ModerateThreshold THEN "MODERATE"
    ELSE "LOW"

\* which branch of the if / elif / else the probability takes
Tier(p) ==
    IF Gt(p, HighThreshold) THEN "HIGH"
    ELSE IF Gt(p, ModerateThreshold) THEN "MODERATE"
    ELSE "LOW"

HighCaveats(wind, pressure) ==
    (IF Lt(wind, LowWind)
     THEN <<Line("low wind limiting dispersion", Fmt1(wind), 0, 0)>> ELSE <<>>)
    \o (IF Gt(pressure, HighPressure)
        THEN <<Line("high pressure promoting accumulation", Fmt0(pressure), 0, 0)>>
        ELSE <<>>)

LowNotesInclusive(wind) ==
    IF Gt(wind, HighWind) \/ wind = HighWind
    THEN <<Line("good wind dispersion", Fmt1(wind), 0, 0)>> ELSE <<>>

LowNotes(wind) ==
    IF Gt(wind, HighWind)
    THEN <<Line("good wind dispersion", Fmt1(wind), 0, 0)>> ELSE <<>>

\* the message built for probability p from the newest row's wind, pressure,
\* temperature and pm10, read at clock value `now`
ComposeMessage(p, wind, pressure, temp, pm10, now) ==
    LET confidence_pct == ConfidencePct(p)
        head == <<Line("PM10 Air Quality Forecast", now, 0, 0),
                  Line("Exceedance Probability", confidence_pct, 0, 0),
                  Line("Current Conditions", Fmt1(temp), Fmt1(wind), Fmt0(pressure)),
                  Line("Baseline PM10", Fmt0(pm10), 0, 0)>>
        body ==
            IF Tier(p) = "HIGH"
            THEN <<Line("HIGH RISK ALERT", 0, 0, 0),
                   Line("probability of exceeding WHO daily guidelines",
                        confidence_pct, 0, 0)>>
                 \o HighCaveats(wind, pressure)
                 \o <<Line("Recommendation: limit outdoor exercise", 0, 0, 0)>>
            ELSE IF Tier(p) = "MODERATE"
            THEN <<Line("MODERATE RISK", 0, 0, 0),
                   Line("Elevated probability", confidence_pct, 0, 0),
                   Line("Recommendation: monitor conditions", 0, 0, 0)>>
            ELSE <<Line("LOW RISK", 0, 0, 0),
                   Line("Favorable atmospheric conditions", confidence_pct, 0, 0)>>
                 \o LowNotes(wind)
                 \o <<Line("Outlook: within acceptable limits", 0, 0, 0)>>
    IN head \o body \o <<Line("Model: RandomForest", 0, 0, 0)>>

\* ------------------------------------------------------------ one run
\* What a run did.  op: which entry point ran; outcome: how it ended;
\* df: the frame handed to predict_from_last_sequence; sequences: the list
\* built by create_sequence before it becomes a frame; matrix: seq_df, handed
\* to predict_proba; loaded: joblib.load returned; called: predict_proba was
\* called; posted: send_to_discord POSTed msg; p: risk_probability;
\* ctx: <<wind, pressure, temp, current_pm10>> read from seq_df
NoRun ==
    [op |-> "none", outcome |-> "none", df |-> <<>>, sequences |-> <<>>,
     matrix |-> <<>>, loaded |-> FALSE, called |-> FALSE, posted |-> FALSE,
     p |-> NaN, ctx |-> <<>>, msg |-> <<>>]

\* the HTTP status the webhook answers with
Statuses == {204, 404}

predict_from_last_sequenceDefaultProbability(df, loadOK, predictOK, p, status, now) ==
    LET seq_df == create_sequence(df)
        risk == IF loadOK /\ predictOK THEN p ELSE 50000
        ctx == <<Cell0(seq_df, <<"Wavg", 3>>), Cell0(seq_df, <<"Pravg", 3>>),
                 Cell0(seq_df, <<"Tavg", 3>>), Cell0(seq_df, <<"PM10", 3>>)>>
    IN IF Len(df) < 3
       THEN [NoRun EXCEPT !.outcome = "Not enough data", !.df = df]
       ELSE [NoRun EXCEPT !.outcome = "Message sent successfully", !.df = df,
                          !.sequences = SequencesFrom(df, 1), !.matrix = seq_df,
                          !.loaded = loadOK, !.called = loadOK, !.posted = TRUE,
                          !.p = risk, !.ctx = ctx,
                          !.msg = ComposeMessage(risk, ctx[1], ctx[2], ctx[3], ctx[4], now)]

\* predict_from_last_sequence(df): loadOK - joblib.load returns a model;
\* predictOK - predict_proba returns; p - the class-1 probability it gives
\* the first row of the matrix; status - the webhook's answer; now - the clock
predict_from_last_sequence(df, loadOK, predictOK, p, status, now) ==
    IF Len(df) < 3
    THEN [NoRun EXCEPT !.outcome = "Not enough data", !.df = df]
    ELSE
    LET sequences == SequencesFrom(df, 1)
        seq_df == ToFrame(sequences)
        built == [NoRun EXCEPT !.df = df, !.sequences = sequences,
                               !.matrix = seq_df]
    IN IF MaxWidth(sequences) # Len(all_columns)
       THEN [built EXCEPT !.outcome = "raise ValueError: columns"]
       ELSE IF ~loadOK
       THEN [built EXCEPT !.outcome = "raise ModelLoadError"]
       ELSE IF ~predictOK
       THEN [built EXCEPT !.outcome = "raise in predict_proba",
                          !.loaded = TRUE, !.called = TRUE]
       ELSE
       LET wind == Cell0(seq_df, <<"Wavg", 3>>)
           pressure == Cell0(seq_df, <<"Pravg", 3>>)
           temp == Cell0(seq_df, <<"Tavg", 3>>)
           current_pm10 == Cell0(seq_df, <<"PM10", 3>>)
       IN [built EXCEPT
             !.outcome = IF status = 204 THEN "Message sent successfully"
                         ELSE "Failed to send message",
             !.loaded = TRUE, !.called = TRUE, !.posted = TRUE, !.p = p,
             !.ctx = <<wind, pressure, temp, current_pm10>>,
             !.msg = ComposeMessage(p, wind, pressure, temp, current_pm10, now)]

\* predict_model.main()
predict_main(file, loadOK, predictOK, p, status, now) ==
    LET t == get_last_observations_transformed(file)
    IN IF t.kind = "raise"
       THEN [NoRun EXCEPT !.op = "predict_main", !.outcome = "raise " \o t.note]
       ELSE IF t.rows = <<>>
       THEN [NoRun EXCEPT !.op = "predict_main", !.outcome = t.note]
       ELSE [predict_from_last_sequence(t.rows, loadOK, predictOK, p, status, now)
                EXCEPT !.op = "predict_main"]

\* ------------------------------------------------------------- inputs
\* class-1 probabilities the classifier may answer with
Probabilities == {0, 30000, 40000, 40001, 70000, 70001, 80000, 100000}

\* what the model file, the classifier and the webhook answer in one run: the
\* load fails; the load succeeds and predict_proba raises; or both succeed,
\* predict_proba gives p and the webhook answers with status
Answers ==
    {[loadOK |-> FALSE, predictOK |-> FALSE, p |-> NaN, status |-> 204],
     [loadOK |-> TRUE, predictOK |-> FALSE, p |-> NaN, status |-> 204]}
    \cup {[loadOK |-> TRUE, predictOK |-> TRUE, p |-> p, status |-> st] :
             p \in Probabilities, st \in Statuses}

\* feature rows for frames handed directly to predict_from_last_sequence
RowA == <<4, 500, 0, 100, 8000, 102500, 6000, 0, 0, 1>>
RowB == <<5, 1250, 120, 500, 6000, 101000, NaN, 1, 1, 1>>
Winds == {100, 200, 300, 400, 500}
Pressures == {101500, 102000, 102500}
ContextRow(wind, pressure) == <<5, 500, 0, wind, 8000, pressure, 6000, 0, 0, 1>>

SeqsUpTo(S, n) == UNION {[1..k -> S] : k \in 0..n}

DirectFrames ==
    SeqsUpTo({RowA, RowB}, MaxDirectRows)
    \cup {<<RowA, RowB, ContextRow(w, pr)>> : w \in Winds, pr \in Pressures}

\* a log file put in place by hand before the first ingest: none, a file of
\* zero bytes, or a file holding the header line only
InitialLogs ==
    {MissingFile, [exists |-> TRUE, lines |-> <<>>],
     [exists |-> TRUE, lines |-> <<HeaderLine>>]}

\* ------------------------------------------------------------- actions
\* time passes
Tick ==
    /\ clock < MaxClock
    /\ clock' = clock + 1
    /\ UNCHANGED <<log, run, seasonIn, seasonOut>>

\* get_data.main()
IngestRun ==
    /\ Len(DataLines(log)) < MaxRows
    /\ \E outcome \in FetchOutcomes, reading \in Readings :
          LET df == get_current_weather_and_pm10(outcome, reading, clock)
          IN /\ log' = IF df.kind = "row" THEN save_to_csv(log, df.row) ELSE log
             /\ run' = [NoRun EXCEPT
                          !.op = "ingest",
                          !.outcome = IF df.kind = "row" THEN "saved"
                                      ELSE IF df.kind = "raise" THEN "raise KeyError"
                                      ELSE "nothing fetched"]
    /\ UNCHANGED <<clock, seasonIn, seasonOut>>

\* predict_model.main()
PredictRun ==
    /\ \E a \in Answers :
          run' = predict_main(log, a.loadOK, a.predictOK, a.p, a.status, clock)
    /\ UNCHANGED <<log, clock, seasonIn, seasonOut>>

\* predict_from_last_sequence(df) called with a frame of the caller's own
PredictDirect ==
    /\ \E df \in DirectFrames, a \in Answers :
          run' = [predict_from_last_sequence(df, a.loadOK, a.predictOK, a.p,
                                             a.status, clock)
                    EXCEPT !.op = "predict_direct"]
    /\ UNCHANGED <<log, clock, seasonIn, seasonOut>>

\* get_season(date)
ComputeSeason ==
    /\ seasonOut = 0
    /\ seasonOut' = get_season(seasonIn[1], seasonIn[2])
    /\ UNCHANGED <<log, clock, run, seasonIn>>

\* ------------------------------------------------------ specifications
Init ==
    /\ log = MissingFile
    /\ clock = 0
    /\ run = NoRun
    /\ seasonIn = <<1, 1>>
    /\ seasonOut = 0

Next == IngestRun \/ PredictRun \/ Tick

\* ingest and prediction runs, one after the other, from a fresh deployment
Spec == Init /\ [][Next]_vars

InitEnv ==
    /\ log \in InitialLogs
    /\ clock = 0
    /\ run = NoRun
    /\ seasonIn = <<1, 1>>
    /\ seasonOut = 0

\* the same runs, started on a log file that may have been put in place by hand
SpecEnv == InitEnv /\ [][Next]_vars

NextDirect == PredictDirect

\* predict_from_last_sequence called directly
SpecDirect == Init /\ [][NextDirect]_vars

InitSeason ==
    /\ log = MissingFile
    /\ clock = 0
    /\ run = NoRun
    /\ seasonIn \in CalendarDates
    /\ seasonOut = 0

NextSeason == ComputeSeason

\* get_season on every date of the calendar
SpecSeason == InitSeason /\ [][NextSeason]_vars

\* ------------------------------------------------------------- claims
HasLine(msg, tag) == \E i \in 1..Len(msg) : msg[i].tag = tag

TierMarkers == {"HIGH RISK ALERT", "MODERATE RISK", "LOW RISK"}

\* C2: get_season answers every calendar date with exactly one of 1..4:
\* Winter (4) from Dec 21 to Mar 20, Spring (1) from Mar 21 to Jun 20,
\* Summer (2) from Jun 21 to Sep 20, Autumn (3) from Sep 21 to Dec 20; so
\* Dec 20 -> 3, Dec 21 -> 4, Mar 20 -> 4, Mar 21 -> 1, Jun 20 -> 1,
\* Jun 21 -> 2, Sep 20 -> 2, Sep 21 -> 3.
C2_SeasonBoundaries ==
    seasonOut # 0 =>
        LET k == seasonIn[1] * 100 + seasonIn[2]
        IN /\ seasonOut \in 1..4
           /\ (seasonOut = 4) <=> (k >= 1221 \/ k <= 320)
           /\ (seasonOut = 1) <=> (k >= 321 /\ k <= 620)
           /\ (seasonOut = 2) <=> (k >= 621 /\ k <= 920)
           /\ (seasonOut = 3) <=> (k >= 921 /\ k <= 1220)
           /\ seasonIn = <<12, 20>> => seasonOut = 3
           /\ seasonIn = <<12, 21>> => seasonOut = 4
           /\ seasonIn = <<3, 20>> => seasonOut = 4
           /\ seasonIn = <<3, 21>> => seasonOut = 1
           /\ seasonIn = <<6, 20>> => seasonOut = 1
           /\ seasonIn = <<6, 21>> => seasonOut = 2
           /\ seasonIn = <<9, 20>> => seasonOut = 2
           /\ seasonIn = <<9, 21>> => seasonOut = 3

\* get_season has answered for Dec 21, the first day of Winter
C2_Witness == seasonIn = <<12, 21>> /\ seasonOut = 4

\* C1: the composed message carries exactly one tier marker, and it is High
\* iff p > 0.7, Moderate iff 0.4 < p <= 0.7, Low iff p <= 0.4 (so p = 0.7 is
\* Moderate and p = 0.4 is Low).
C1_TierBoundaries ==
    run.posted =>
        /\ Cardinality({i \in 1..Len(run.msg) : run.msg[i].tag \in TierMarkers}) = 1
        /\ HasLine(run.msg, "HIGH RISK ALERT") <=> run.p > 70000
        /\ HasLine(run.msg, "MODERATE RISK") <=> (run.p > 40000 /\ run.p <= 70000)
        /\ HasLine(run.msg, "LOW RISK") <=> run.p <= 40000

\* a message was composed for p = 0.7 exactly, and it is Moderate
C1_Witness ==
    run.posted /\ run.p = 70000 /\ HasLine(run.msg, "MODERATE RISK")

\* C6: the "limiting dispersion" caveat is in the message iff the tier is
\* High and wind < 2.0; the "promoting accumulation" caveat iff the tier is
\* High and pressure > 1020; the "good wind dispersion" note iff the tier is
\* Low and wind > 4.0.  A Moderate message carries none of the three, and
\* wind of exactly 2.0 or 4.0 and pressure of exactly 1020 add nothing.
C6_Annotations ==
    run.posted =>
        LET wind == run.ctx[1]
            pressure == run.ctx[2]
            high == run.p > 70000
            low == run.p <= 40000
        IN /\ HasLine(run.msg, "low wind limiting dispersion")
                <=> (high /\ wind # NaN /\ wind < 200)
           /\ HasLine(run.msg, "high pressure promoting accumulation")
                <=> (high /\ pressure # NaN /\ pressure > 102000)
           /\ HasLine(run.msg, "good wind dispersion")
                <=> (low /\ wind # NaN /\ wind > 400)

\* a High message with wind 1.0 m/s and pressure 1025 hPa carries both caveats
C6_Witness ==
    /\ run.posted /\ run.p = 80000
    /\ run.ctx[1] = 100 /\ run.ctx[2] = 102500
    /\ HasLine(run.msg, "low wind limiting dispersion")
    /\ HasLine(run.msg, "high pressure promoting accumulation")
    /\ ~HasLine(run.msg, "good wind dispersion")

\* C8: a message is POSTed only after joblib.load and predict_proba have both
\* returned, with the probability the classifier gave; a run whose model
\* load fails ends there, calls no classifier and sends nothing.
C8_NoMessageWithoutModel ==
    /\ run.posted => (run.loaded /\ run.called /\ run.p \in Probabilities)
    /\ (run.matrix # <<>> /\ ~run.loaded) =>
          (~run.called /\ ~run.posted /\ run.msg = <<>> /\ run.p = NaN)

\* a prediction run built its matrix and then failed to load the model
C8_Witness ==
    /\ run.op = "predict_main"
    /\ run.matrix # <<>>
    /\ run.outcome = "raise ModelLoadError"

IsPrefix(s, t) == Len(s) <= Len(t) /\ SubSeq(t, 1, Len(s)) = s

\* C9: the log is append-only under any sequence of ingest and prediction
\* runs: the header is the first line and the only header line; an ingest
\* that fetched a row adds exactly that one row at the end (creating the file
\* with the header first when it did not exist); any other ingest and every
\* prediction run leave the file as it was; no line already in the file is
\* changed, moved or removed.
C9_AppendOnlyLog ==
    /\ [](log.exists =>
            /\ log.lines # <<>>
            /\ log.lines[1] = HeaderLine
            /\ \A i \in 2..Len(log.lines) : ~log.lines[i].hdr)
    /\ [][/\ log.exists => log'.exists
          /\ IsPrefix(log.lines, log'.lines)
          /\ run'.op = "predict_main" => log' = log
          /\ (run'.op = "ingest" /\ run'.outcome # "saved") => log' = log
          /\ log' # log =>
                /\ run'.op = "ingest" /\ run'.outcome = "saved"
                /\ Len(log'.lines) = (IF log.exists THEN Len(log.lines) ELSE 1) + 1
                /\ ~log'.lines[Len(log'.lines)].hdr
                /\ log'.lines[Len(log'.lines)].cells[1] = Today(clock)]_vars

\* the log holds two rows or more and a prediction run has just read it
C9_Witness ==
    /\ log.exists /\ Len(log.lines) >= 3
    /\ run.op = "predict_main"

\* C10: two compositions with the same probability and the same latest-row
\* context (wind, pressure, temperature, pm10) give the same message.
C10_SameInputsSameMessage ==
    [][(run.posted /\ run'.posted /\ run'.p = run.p /\ run'.ctx = run.ctx)
          => run'.msg = run.msg]_vars

\* C3: whenever a vector is built from a frame of 3 rows or more, the vector
\* given to the classifier (and read for the message context) is 30 wide and
\* is exactly the last 3 rows of the frame, oldest first, each row in the
\* column order Month, Tavg, Pavg, Wavg, Huavg, Pravg, PM10, IsWeekend,
\* IsHoliday, Season; the context is the newest row's wind, pressure,
\* temperature and pm10.
C3_LastThreeRows ==
    run.matrix # <<>> =>
        LET newest == run.df[Len(run.df)]
        IN /\ Len(run.matrix[1]) = 30
           /\ run.matrix[1] = Flatten(Tail3(run.df))
           /\ run.posted => run.ctx = <<newest[4], newest[6], newest[2], newest[7]>>

\* C5: every row of the matrix handed to predict_proba is made of 3 complete
\* feature rows: 30 entries taken from the frame, none filled in.
C5_NoPartialVector ==
    run.called =>
        \A k \in 1..Len(run.sequences) : Len(run.sequences[k]) = 30

\* a non-PM10 cell of a log line is empty
NullFeature(line) == ~line.hdr /\ \E j \in 2..6 : line.cells[j] = EmptyCell

\* C4: a prediction run on a log that is missing, empty or shorter than 3
\* rows ends early and without error: no vector is built, the model is
\* neither loaded nor called, and nothing is sent.
C4_NoDataEndsQuietly ==
    (run.op = "predict_main" /\ (~log.exists \/ Len(DataLines(log)) < 3)) =>
        /\ run.outcome \in {"File does not exist", "File is empty", "Not enough data"}
        /\ run.sequences = <<>> /\ run.matrix = <<>>
        /\ ~run.loaded /\ ~run.called /\ ~run.posted

\* C7: a prediction run on a log whose last 3 rows hold a missing non-PM10
\* field attempts no inference and sends nothing.
C7_NoNullFeatureReachesModel ==
    (/\ run.op = "predict_main"
     /\ \E i \in 1..Len(Tail3(DataLines(log))) : NullFeature(Tail3(DataLines(log))[i]))
    => (~run.called /\ ~run.posted)
====
